---- MODULE Spec2Model ----
(***************************************************************************)
(* Bio.Phylo.CDAOIO: decomposition of Newick trees into CDAO/RDF           *)
(* statements (Writer) and reconstruction of trees from an RDF model       *)
(* (Parser).                                                               *)
(*                                                                         *)
(* A batch of trees is a function from forest paths to clade values: the   *)
(* path <<t>> is the root clade of the t-th tree, <<t, i>> its i-th child, *)
(* and so on.  RDF terms are strings in N-Triples form: <uri> for a        *)
(* resource, "text" for a literal.  A statement is a triple of terms.      *)
(***************************************************************************)
EXTENDS Integers, Sequences, FiniteSets, TLC

\* ---- bounds of the model ----
MaxTrees == 2
MaxChildren == 2
MaxDepth == 2
MaxClades == 3
MaxCalls == 2
\* cap of node_counter: a call starts only if its clades fit under it
MaxNodes == 4

\* ---- optional values (Python None) ----
None == [some |-> FALSE, v |-> ""]
Some(s) == [some |-> TRUE, v |-> s]

\* A float is modelled by its value rounded to the 12 significant digits
\* that Python 2's str() prints (sig) and the residue beyond them (tail).
NoLength == [some |-> FALSE, sig |-> 0, tail |-> 0]
Length(sig, tail) == [some |-> TRUE, sig |-> sig, tail |-> tail]

Names == {None, Some(""), Some("A"), Some("B")}
Lengths == {NoLength, Length(1, 0), Length(3, 1)}
CladeValues == { [name |-> None, branch_length |-> NoLength],
                 [name |-> Some("A"), branch_length |-> Length(1, 0)],
                 [name |-> Some(""), branch_length |-> Length(3, 1)],
                 [name |-> Some("B"), branch_length |-> NoLength] }

\* ---- forests ----
ParentPath(p) == SubSeq(p, 1, Len(p) - 1)
Last(p) == p[Len(p)]
IsPrefix(p, q) == Len(p) <= Len(q) /\ SubSeq(q, 1, Len(p)) = p

AllPaths == UNION { { <<t>> \o r : r \in [1..d -> 1..MaxChildren] } :
                      t \in 1..MaxTrees, d \in 0..MaxDepth }

\* a path that may be added to the shape S: its parent and its elder
\* sibling are in S already
Extends(S, p) ==
    /\ p \notin S
    /\ Len(p) > 1 => ParentPath(p) \in S
    /\ Last(p) > 1 => Append(ParentPath(p), Last(p) - 1) \in S

RECURSIVE ShapesOfSize(_)
ShapesOfSize(n) ==
    IF n = 0 THEN { {} }
    ELSE UNION { { S \cup {p} : p \in { q \in AllPaths : Extends(S, q) } } :
                 S \in ShapesOfSize(n - 1) }

Shapes == UNION { ShapesOfSize(n) : n \in 0..MaxClades }
Batches == UNION { [S -> CladeValues] : S \in Shapes }

NumTrees(f) == Cardinality({ p \in DOMAIN f : Len(p) = 1 })
NumChildren(f, p) == Cardinality({ q \in DOMAIN f : Len(q) = Len(p) + 1 /\ IsPrefix(p, q) })
\* clade.clades, as the paths of the children in child order
clades(f, p) == [i \in 1..NumChildren(f, p) |-> Append(p, i)]
\* Clade.is_terminal(): the clade has no children
is_terminal(f, p) == NumChildren(f, p) = 0

\* ---- RDF terms and namespaces ----
RDF_NAMESPACES == [owl |-> "http://www.w3.org/2002/07/owl#",
                   cdao |-> "http://purl.obolibrary.org/obo/cdao.owl#",
                   rdf |-> "http://www.w3.org/1999/02/22-rdf-syntax-ns#"]
urls == RDF_NAMESPACES

Uri(s) == "<" \o s \o ">"
Literal(s) == "\"" \o s \o "\""
\* qUri('prefix:local'): the prefix and its colon replaced by the namespace
qUri(prefix, local) == Uri(urls[prefix] \o local)
\* nUri(s): the local name appended to the base URI
nUri(base, s) == Uri(base \o s)

\* the vocabulary, expanded
cdao_AncestralNode == qUri("cdao", "AncestralNode")
cdao_Directed_Edge == qUri("cdao", "Directed_Edge")
cdao_EdgeLength == qUri("cdao", "EdgeLength")
cdao_RootedTree == qUri("cdao", "RootedTree")
cdao_TU == qUri("cdao", "TU")
cdao_TerminalNode == qUri("cdao", "TerminalNode")
cdao_belongs_to_Edge_as_Child == qUri("cdao", "belongs_to_Edge_as_Child")
cdao_belongs_to_Edge_as_Parent == qUri("cdao", "belongs_to_Edge_as_Parent")
cdao_has_Child_Node == qUri("cdao", "has_Child_Node")
cdao_has_Parent == qUri("cdao", "has_Parent")
cdao_has_Parent_Node == qUri("cdao", "has_Parent_Node")
cdao_has_annotation == qUri("cdao", "has_annotation")
cdao_has_root == qUri("cdao", "has_root")
cdao_has_value == qUri("cdao", "has_value")
cdao_represents_TU == qUri("cdao", "represents_TU")
owl_Ontology == qUri("owl", "Ontology")
rdf_label == qUri("rdf", "label")
rdf_type == qUri("rdf", "type")

\* str(clade.branch_length): 'None' for None, else 12 significant digits
str(x) == IF x.some THEN ToString(x.sig) ELSE "None"

OntologyStatement == <<Uri(urls.cdao), rdf_type, owl_Ontology>>

VARIABLES
    trees,            \* Writer.trees: the batch given to the constructor
    model,            \* Writer.model: the statements appended, in order
    owner,            \* for each appended statement, <<call>> \o path of the
                      \* clade whose process_clade call yielded it
    minted,           \* the identifiers process_clade has minted, in order
    node_counter, edge_counter, tree_counter, tu_counter,
    base_uri,         \* Writer.base_uri
    uri,              \* clade.uri of the clades processed so far
    todo,             \* the clades the suspended process_clade generators
                      \* and the loop over trees will visit, next first
    wpc,              \* "idle", "running" (inside add_trees_to_model), "aborted"
    in_transaction,   \* transaction started and not committed
    caller,           \* "write" or "direct": who called add_trees_to_model
    calls,            \* add_trees_to_model calls completed or aborted
    handle,           \* the statements serialized to the file handle
    written,          \* serialize_model has written to the handle
    serialize_result, \* value returned by the last serialize_model
    write_result,     \* value returned by the last Writer.write
    pmodel,           \* Parser.model: the statements loaded from the handle
    node_info,        \* Parser.node_info: node -> its Node Info Record
    parents,          \* Parser.parents: node -> its children, as discovered
    roots,            \* the has_root results the generator has yet to visit
    yielded,          \* the trees yielded so far: the root clade of each,
                      \* and the root node it was built for
    queries,          \* the queries executed against the store, in order
    ppc,              \* "new", "ready" (parse returned the generator),
                      \* "iterating", "done" (exhausted), "error" (raised)
    perror            \* the exception that ended the generator

wvars == <<trees, model, owner, minted, node_counter, edge_counter, tree_counter,
           tu_counter, base_uri, uri, todo, wpc, in_transaction, caller,
           calls, handle, written, serialize_result, write_result>>

pvars == <<pmodel, node_info, parents, roots, yielded, queries, ppc, perror>>
vars == <<wvars, pvars>>

\* The value a Python function returns
NoneResult == [some |-> FALSE, n |-> 0]
IntResult(n) == [some |-> TRUE, n |-> n]

Range(q) == { q[i] : i \in 1..Len(q) }

\* ---- Writer.process_clade: the statements of one clade ----
\* as if the test were `clade.name is not None`
has_name_is_not_none(clade) == clade.name.some

\* `if clade.name:` a name that is neither None nor empty
has_name(clade) == clade.name.some /\ clade.name.v # ""

\* as if the two node types were exchanged
node_type_swapped(f, p) == IF is_terminal(f, p) THEN "AncestralNode" ELSE "TerminalNode"

node_type(f, p) == IF is_terminal(f, p) THEN "TerminalNode" ELSE "AncestralNode"

node_uri(n) == "node" \o ToString(n)
tree_uri(n) == "tree" \o ToString(n)
tu_uri(n) == "tu" \o ToString(n)
edge_uri(n) == "edge" \o ToString(n)
\* as if the annotation shared the name of its edge
edge_ann_uri_as_edge(n) == "edge" \o ToString(n)
edge_ann_uri(n) == "edge_annotation" \o ToString(n)

\* the statements added for the edge from the parent: the edge, and its
\* length annotation
edge_statements(clade, clade_uri, parent_uri, ec, base) ==
    << <<nUri(base, edge_uri(ec)), rdf_type, cdao_Directed_Edge>>,
       <<nUri(base, edge_uri(ec)), cdao_has_Parent_Node, nUri(base, parent_uri)>>,
       <<nUri(base, edge_uri(ec)), cdao_has_Child_Node, nUri(base, clade_uri)>>,
       <<nUri(base, clade_uri), cdao_belongs_to_Edge_as_Child, nUri(base, edge_uri(ec))>>,
       <<nUri(base, clade_uri), cdao_has_Parent, nUri(base, parent_uri)>>,
       <<nUri(base, parent_uri), cdao_belongs_to_Edge_as_Parent, nUri(base, edge_uri(ec))>>,
       <<nUri(base, edge_ann_uri(ec)), rdf_type, cdao_EdgeLength>>,
       <<nUri(base, edge_uri(ec)), cdao_has_annotation, nUri(base, edge_ann_uri(ec))>>,
       <<nUri(base, edge_ann_uri(ec)), cdao_has_value, Literal(str(clade.branch_length))>> >>

\* One call up to its first recursion: the counters it advances, the uri it
\* assigns and the statements it yields, in order.  parent is None or the
\* uri of the parent clade.
process_clade(f, p, parent, root, nc, ec, tc, tuc, base) ==
    LET clade == f[p]
        nc1 == nc + 1
        clade_uri == node_uri(nc1)
        tc1 == IF root THEN tc + 1 ELSE tc
        tree_stmts ==
            IF root
            THEN << <<nUri(base, tree_uri(tc1)), rdf_type, cdao_RootedTree>>,
                    <<nUri(base, tree_uri(tc1)), cdao_has_root, nUri(base, clade_uri)>> >>
            ELSE << >>
        tuc1 == IF has_name(clade) THEN tuc + 1 ELSE tuc
        tu_stmts ==
            IF has_name(clade)
            THEN << <<nUri(base, tu_uri(tuc1)), rdf_type, cdao_TU>>,
                    <<nUri(base, clade_uri), cdao_represents_TU, nUri(base, tu_uri(tuc1))>>,
                    <<nUri(base, tu_uri(tuc1)), rdf_label, Literal(clade.name.v)>> >>
            ELSE << >>
        node_stmts == << <<nUri(base, clade_uri), rdf_type, qUri("cdao", node_type(f, p))>> >>
        ec1 == IF parent.some THEN ec + 1 ELSE ec
        edge_stmts ==
            IF parent.some
            THEN edge_statements(clade, clade_uri, parent.v, ec1, base)
            ELSE << >>
    IN  [statements |-> tree_stmts \o tu_stmts \o node_stmts \o edge_stmts,
         uri |-> clade_uri,
         minted |-> <<clade_uri>>
                    \o (IF root THEN <<tree_uri(tc1)>> ELSE << >>)
                    \o (IF has_name(clade) THEN <<tu_uri(tuc1)>> ELSE << >>)
                    \o (IF parent.some THEN <<edge_uri(ec1), edge_ann_uri(ec1)>> ELSE << >>),
         node_counter |-> nc1, edge_counter |-> ec1,
         tree_counter |-> tc1, tu_counter |-> tuc1]

\* as if the children were visited after everything pending
visit_order_deferred(f, p, pending) == pending \o clades(f, p)

\* the recursion of process_clade: the children are visited in child
\* order, each with its whole subtree, before anything that was pending
visit_order(f, p, pending) == clades(f, p) \o pending

\* ---- Writer ----
\* add_trees_to_model up to the loop over the trees; write calls it with
\* base_uri '', a direct caller gets the default
BeginAddTrees(c) ==
    /\ wpc = "idle"
    /\ ppc = "new"
    /\ calls < MaxCalls
    /\ node_counter + Cardinality(DOMAIN trees) <= MaxNodes
    /\ caller' = c
    /\ base_uri' = IF c = "write" THEN "" ELSE "http://localhost/"
    /\ in_transaction' = TRUE
    /\ model' = Append(model, OntologyStatement)
    /\ owner' = Append(owner, <<calls + 1>>)
    /\ todo' = [t \in 1..NumTrees(trees) |-> <<t>>]
    /\ wpc' = "running"
    /\ UNCHANGED <<trees, minted, node_counter, edge_counter, tree_counter,
                   tu_counter, uri, calls, handle, written, serialize_result,
                   write_result>>
    /\ UNCHANGED pvars

\* the next clade's process_clade call, its statements appended to the
\* model: the generator runs the body of the call when the loop of
\* add_trees_to_model asks for the first statement of the clade, and the
\* loop appends the statements as they are yielded
ProcessClade ==
    /\ wpc = "running"
    /\ todo # << >>
    /\ LET p == Head(todo)
           root == Len(p) = 1
           parent == IF root THEN None ELSE Some(uri[ParentPath(p)])
           r == process_clade(trees, p, parent, root, node_counter,
                              edge_counter, tree_counter, tu_counter, base_uri)
       IN  /\ node_counter' = r.node_counter
           /\ edge_counter' = r.edge_counter
           /\ tree_counter' = r.tree_counter
           /\ tu_counter' = r.tu_counter
           /\ uri' = [q \in DOMAIN uri \cup {p} |-> IF q = p THEN r.uri ELSE uri[q]]
           /\ model' = model \o r.statements
           /\ minted' = minted \o r.minted
           /\ owner' = owner \o [i \in 1..Len(r.statements) |-> <<calls + 1>> \o p]
           /\ todo' = visit_order(trees, p, Tail(todo))
    /\ UNCHANGED <<trees, base_uri, wpc, in_transaction, caller, calls,
                   handle, written, serialize_result, write_result>>
    /\ UNCHANGED pvars

\* the end of add_trees_to_model: commit and sync; Writer.write then
\* calls serialize_model, drops its result and returns None
Commit ==
    /\ wpc = "running"
    /\ todo = << >>
    /\ in_transaction' = FALSE
    /\ calls' = calls + 1
    /\ wpc' = "idle"
    /\ IF caller = "write"
       THEN /\ handle' = Range(model)
            /\ written' = TRUE
            /\ serialize_result' = IntResult(tree_counter)
            /\ write_result' = NoneResult
       ELSE UNCHANGED <<handle, written, serialize_result, write_result>>
    /\ UNCHANGED <<trees, model, owner, minted, node_counter, edge_counter,
                   tree_counter, tu_counter, base_uri, uri, todo, caller>>
    /\ UNCHANGED pvars

\* an exception inside the loop over the trees leaves add_trees_to_model:
\* there is no handler, and neither commit nor rollback is reached
Abort ==
    /\ wpc = "running"
    /\ wpc' = "aborted"
    /\ calls' = calls + 1
    /\ UNCHANGED <<trees, model, owner, minted, node_counter, edge_counter,
                   tree_counter, tu_counter, base_uri, uri, todo,
                   in_transaction, caller, handle, written,
                   serialize_result, write_result>>
    /\ UNCHANGED pvars

WInit ==
    /\ trees \in Batches
    /\ model = << >>
    /\ owner = << >>
    /\ minted = << >>
    /\ node_counter = 0 /\ edge_counter = 0
    /\ tree_counter = 0 /\ tu_counter = 0
    /\ base_uri = ""
    /\ uri = << >>
    /\ todo = << >>
    /\ wpc = "idle"
    /\ in_transaction = FALSE
    /\ caller = "direct"
    /\ calls = 0
    /\ handle = {}
    /\ written = FALSE
    /\ serialize_result = NoneResult
    /\ write_result = NoneResult

\* ---- Parser: the two queries, evaluated on a set of statements ----
Objects(G, subj, pred) == { t[3] : t \in { u \in G : u[1] = subj /\ u[2] = pred } }
Subjects(G, pred, obj) == { t[1] : t \in { u \in G : u[2] = pred /\ u[3] = obj } }

Unbound == [some |-> FALSE, v |-> ""]

\* OPTIONAL { ?node has_Parent ?parent_node ; belongs_to_Edge_as_Child
\*            [ has_annotation [ a EdgeLength ; has_value ?branch_length ] ] }
ParentMatches(G, node) ==
    UNION { UNION { UNION { { [parent_node |-> Some(pn), edge |-> e, ann |-> a,
                               branch_length |-> Some(bl)] :
                              bl \in Objects(G, a, cdao_has_value) } :
                            a \in { x \in Objects(G, e, cdao_has_annotation) :
                                    cdao_EdgeLength \in Objects(G, x, rdf_type) } } :
                    e \in Objects(G, node, cdao_belongs_to_Edge_as_Child) } :
            pn \in Objects(G, node, cdao_has_Parent) }

\* OPTIONAL { ?node represents_TU [ rdf:label ?label ] }
LabelMatches(G, node) ==
    UNION { { [tu |-> tu, label |-> Some(l)] : l \in Objects(G, tu, rdf_label) } :
            tu \in Objects(G, node, cdao_represents_TU) }

NoParentMatch == [parent_node |-> Unbound, edge |-> "", ann |-> "", branch_length |-> Unbound]
NoLabelMatch == [tu |-> "", label |-> Unbound]

\* the result rows of the node query: one per node type statement, left
\* joined with the matches of the two optional patterns
NodeRows(G) ==
    UNION { UNION { { [node |-> n, kind |-> k, pm |-> pm, lm |-> lm] :
                      pm \in (IF ParentMatches(G, n) = {} THEN {NoParentMatch} ELSE ParentMatches(G, n)),
                      lm \in (IF LabelMatches(G, n) = {} THEN {NoLabelMatch} ELSE LabelMatches(G, n)) } :
                    n \in Subjects(G, rdf_type, k) } :
            k \in {cdao_AncestralNode, cdao_TerminalNode} }

\* the result rows of the root query
RootRows(G) ==
    UNION { { [tree |-> t, root_node |-> r] : r \in Objects(G, t, cdao_has_root) } :
            t \in Subjects(G, rdf_type, cdao_RootedTree) }

\* the orders in which a query may yield a set of rows
Orders(R) == { q \in [1..Cardinality(R) -> R] : Range(q) = R }

\* literal_value['string'] of a literal term
KnownStrings == { n.v : n \in Names } \cup { str(x) : x \in Lengths }
literal_value(t) == CHOOSE x \in KnownStrings : Literal(x) = t

\* float(s): the number s denotes, or a ValueError
KnownFloats == { x.sig : x \in { y \in Lengths : y.some } }
float(x) ==
    IF \E n \in KnownFloats : ToString(n) = x
    THEN [error |-> FALSE, value |-> Length(CHOOSE n \in KnownFloats : ToString(n) = x, 0)]
    ELSE [error |-> TRUE, value |-> NoLength]

\* ---- Parser.get_node_info: the loop over the rows of the node query ----
\* The tables are keyed by the node term: str(result['node'].uri) and
\* str(result['parent_node']) are taken to print a resource the same way.
\* A ValueError from float() leaves the loop with the record of the
\* current row half filled.
RECURSIVE get_node_info(_, _, _, _)
get_node_info(rows, i, ni, par) ==
    IF i > Len(rows) THEN [error |-> FALSE, node_info |-> ni, parents |-> par]
    ELSE
      LET result == rows[i]
          node == result.node
          label == IF result.lm.label.some
                   THEN Some(literal_value(result.lm.label.v)) ELSE None
          f == IF result.pm.branch_length.some
               THEN float(literal_value(result.pm.branch_length.v))
               ELSE [error |-> FALSE, value |-> NoLength]
          r == [label |-> label, branch_length |-> f.value]
          label_only == [label |-> label, branch_length |-> NoLength]
          ni1 == [n \in DOMAIN ni \cup {node} |-> IF n = node THEN r ELSE ni[n]]
          par1 == IF result.pm.parent_node.some
                  THEN LET parent == result.pm.parent_node.v
                       IN  [n \in DOMAIN par \cup {parent} |->
                              IF n = parent
                              THEN (IF parent \in DOMAIN par THEN Append(par[parent], node) ELSE <<node>>)
                              ELSE par[n]]
                  ELSE par
      IN  IF f.error
          THEN [error |-> TRUE, parents |-> par,
                node_info |-> [n \in DOMAIN ni \cup {node} |-> IF n = node THEN label_only ELSE ni[n]]]
          ELSE get_node_info(rows, i + 1, ni1, par1)

\* ---- Parser.new_clade and Parser.parse_children ----
Clade(name, branch_length) == [name |-> name, branch_length |-> branch_length, clades |-> << >>]

\* as if a node without a record got an empty record
new_clade_lenient(ni, node) ==
    IF node \notin DOMAIN ni
    THEN [error |-> FALSE, clade |-> Clade(None, NoLength)]
    ELSE [error |-> FALSE, clade |-> Clade(ni[node].label, ni[node].branch_length)]

\* self.node_info[node] raises KeyError for a node without a record
new_clade(ni, node) ==
    IF node \notin DOMAIN ni
    THEN [error |-> TRUE, clade |-> Clade(None, NoLength)]
    ELSE [error |-> FALSE, clade |-> Clade(ni[node].label, ni[node].branch_length)]

\* the children recorded for a node; none when the node is not a key
children_of(par, node) == IF node \in DOMAIN par THEN par[node] ELSE << >>

\* as if parse_children asked the store for the children of the node
assembly_queries_per_node(node) == <<"has_Parent">>

\* the queries parse_children runs for a node: none, its model argument
\* is not used
assembly_queries(node) == << >>

\* every child was given a record by the row that made it a child, so
\* new_clade does not fail here
RECURSIVE parse_children(_, _, _)
parse_children(ni, par, node) ==
    LET children == children_of(par, node)
    IN  [i \in 1..Len(children) |->
           [new_clade(ni, children[i]).clade EXCEPT !.clades = parse_children(ni, par, children[i])]]

\* ---- Parser ----
\* the documents a handle may hold: what the writer serialized, or that
\* graph with the type statement of one node missing (a partial graph)
IsNodeType(x) ==
    /\ x[2] = rdf_type
    /\ x[3] \in {cdao_AncestralNode, cdao_TerminalNode}
Documents == {handle} \cup { handle \ {x} : x \in { y \in handle : IsNodeType(y) } }

\* Parser.parse: parse_handle_to_model loads the handle into the model; the
\* generator it creates is dropped unstarted, and a second unstarted
\* generator is returned.  The handle is parsed when the write that
\* filled it has returned.
Parse(doc) ==
    /\ ppc = "new"
    /\ wpc = "idle"
    /\ caller = "write"
    /\ written
    /\ pmodel' = doc
    /\ ppc' = "ready"
    /\ UNCHANGED <<node_info, parents, roots, yielded, queries, perror>>
    /\ UNCHANGED wvars

\* the body of the loop over the root results, for the results rts still
\* to visit: StopIteration, a KeyError from new_clade, or one more tree
Resume(ni, par, rts, qs) ==
    IF rts = << >>
    THEN /\ ppc' = "done"
         /\ roots' = rts
         /\ queries' = qs
         /\ UNCHANGED <<yielded, perror>>
    ELSE LET root_node == Head(rts).root_node
             c == new_clade(ni, root_node)
         IN  IF c.error
             THEN /\ ppc' = "error"
                  /\ perror' = "KeyError"
                  /\ roots' = rts
                  /\ queries' = qs
                  /\ UNCHANGED yielded
             ELSE /\ ppc' = "iterating"
                  /\ yielded' = Append(yielded,
                        [root_node |-> root_node,
                         clade |-> [c.clade EXCEPT !.clades = parse_children(ni, par, root_node)]])
                  /\ roots' = Tail(rts)
                  /\ queries' = qs \o assembly_queries(root_node)
                  /\ UNCHANGED perror

\* the first next() on the generator of parse_model: get_node_info, then
\* the root query, then the loop up to its first yield
FirstNext ==
    /\ ppc = "ready"
    /\ wpc # "running"
    /\ \E rows \in Orders(NodeRows(pmodel)) :
         LET r == get_node_info(rows, 1, << >>, << >>)
         IN  /\ node_info' = r.node_info
             /\ parents' = r.parents
             /\ IF r.error
                THEN /\ ppc' = "error"
                     /\ perror' = "ValueError"
                     /\ queries' = Append(queries, "node_info")
                     /\ UNCHANGED <<roots, yielded>>
                ELSE \E rts \in Orders(RootRows(pmodel)) :
                        Resume(r.node_info, r.parents, rts,
                               queries \o <<"node_info", "has_root">>)
    /\ UNCHANGED pmodel
    /\ UNCHANGED wvars

\* a later next(): the loop continues from its yield
LaterNext ==
    /\ ppc = "iterating"
    /\ wpc # "running"
    /\ Resume(node_info, parents, roots, queries)
    /\ UNCHANGED <<pmodel, node_info, parents>>
    /\ UNCHANGED wvars

PInit ==
    /\ pmodel = {}
    /\ node_info = << >>
    /\ parents = << >>
    /\ roots = << >>
    /\ yielded = << >>
    /\ queries = << >>
    /\ ppc = "new"
    /\ perror = ""

Init == WInit /\ PInit

Next ==
    \/ \E c \in {"write", "direct"} : BeginAddTrees(c)
    \/ ProcessClade
    \/ Commit
    \/ Abort
    \/ \E doc \in Documents : Parse(doc)
    \/ FirstNext
    \/ LaterNext
Spec == Init /\ [][Next]_vars

\* ---------------------------------------------------------------------
\* Properties
\* ---------------------------------------------------------------------
Indices == 1..Len(model)
\* <<call>> \o path of every clade processed so far
Processed == { owner[i] : i \in { j \in Indices : Len(owner[j]) > 1 } }
StatementsOf(o) == { i \in Indices : owner[i] = o }
CladeOf(o) == trees[Tail(o)]
IsRootOwner(o) == Len(o) = 2
WrittenOnce == written /\ calls = 1

\* C1: a batch written by one write and parsed back from the unaltered
\* handle is reconstructed: the generator ends without an exception, and
\* the trees yielded are the trees written, up to the order of the trees
\* and of the children -- names equal (an empty name counting as no
\* name), branch lengths of the non-root clades equal to the printed
\* precision.
SameName(a, b) ==
    IF a.some /\ a.v # "" THEN b.some /\ b.v = a.v ELSE ~ b.some
SameLength(a, b) == a.some = b.some /\ (a.some => a.sig = b.sig)
Bijections(n) == { q \in [1..n -> 1..n] : Range(q) = 1..n }
RECURSIVE SameClade(_, _, _)
SameClade(p, c, root) ==
    /\ SameName(trees[p].name, c.name)
    /\ root \/ SameLength(trees[p].branch_length, c.branch_length)
    /\ Len(c.clades) = NumChildren(trees, p)
    /\ \E q \in Bijections(Len(c.clades)) :
         \A i \in 1..Len(c.clades) : SameClade(Append(p, i), c.clades[q[i]], FALSE)
RoundTrip ==
    (WrittenOnce /\ pmodel = handle /\ ppc \in {"done", "error"}) =>
        /\ ppc = "done"
        /\ Len(yielded) = NumTrees(trees)
        /\ \E q \in Bijections(Len(yielded)) :
             \A t \in 1..Len(yielded) : SameClade(<<t>>, yielded[q[t]].clade, TRUE)

\* C2: for every clade processed under a parent, the EdgeLength statements
\* are among its statements if and only if its branch length is present.
HasEdgeLength(o) ==
    \E i \in StatementsOf(o) :
        model[i][2] = rdf_type /\ model[i][3] = cdao_EdgeLength
EdgeLengthIffBranchLength ==
    \A o \in Processed :
        ~ IsRootOwner(o) => (HasEdgeLength(o) <=> CladeOf(o).branch_length.some)

\* C3: once write has returned, its result is the number of trees written.
WriteReturnsCount ==
    WrittenOnce => write_result = IntResult(NumTrees(trees))

\* C4: after add_trees_to_model is left by an exception, a read of the
\* model sees no statement of the aborted batch.
Visible == Range(model)
BatchStatements(k) == { model[i] : i \in { j \in Indices : owner[j][1] = k } }
AbortedBatchInvisible ==
    wpc = "aborted" => BatchStatements(calls) \cap Visible = {}

\* C5: the identifiers minted by one Writer are pairwise distinct, across
\* its calls too, and no counter ever decreases.
IdentifiersDistinct ==
    \A i, j \in 1..Len(minted) : i # j => minted[i] # minted[j]
CountersIncrease ==
    /\ node_counter' >= node_counter
    /\ edge_counter' >= edge_counter
    /\ tu_counter' >= tu_counter
    /\ tree_counter' >= tree_counter
IdentifierUniqueness == [] IdentifiersDistinct /\ [][CountersIncrease]_vars
IdentifierUniquenessWitness ==
    /\ wpc = "idle" /\ calls = 2
    /\ node_counter = 4 /\ edge_counter = 2 /\ tree_counter = 2 /\ tu_counter >= 2

\* C6: every processed clade has exactly one node type statement, no other
\* statement types its node, and the type is TerminalNode exactly when the
\* clade has no children.
KindCorrectness ==
    \A o \in Processed :
        LET typed == { i \in StatementsOf(o) : IsNodeType(model[i]) }
        IN  /\ Cardinality(typed) = 1
            /\ \A i \in typed :
                 /\ model[i][3] = (IF NumChildren(trees, Tail(o)) = 0
                                   THEN cdao_TerminalNode ELSE cdao_AncestralNode)
                 /\ \A j \in Indices :
                      (IsNodeType(model[j]) /\ model[j][1] = model[i][1]) => j = i
KindCorrectnessWitness ==
    /\ wpc = "idle" /\ calls >= 1 /\ node_counter = 3
    /\ \E p, q \in DOMAIN trees : NumChildren(trees, p) = 0 /\ NumChildren(trees, q) > 0

\* C7: a processed clade has the TU statements (type TU, represents_TU
\* from its node, label with its name) exactly when its name is neither
\* None nor empty; otherwise it has none of them.
TUPresence ==
    \A o \in Processed :
        LET S == StatementsOf(o)
            tus == { i \in S : model[i][2] = rdf_type /\ model[i][3] = cdao_TU }
            reps == { i \in S : model[i][2] = cdao_represents_TU }
            labels == { i \in S : model[i][2] = rdf_label }
            name == CladeOf(o).name
        IN  IF name.some /\ name.v # ""
            THEN /\ Cardinality(tus) = 1 /\ Cardinality(reps) = 1 /\ Cardinality(labels) = 1
                 /\ \A t \in tus, r \in reps, l \in labels :
                      /\ model[r][3] = model[t][1]
                      /\ model[l][1] = model[t][1]
                      /\ model[l][3] = Literal(name.v)
                      /\ \E n \in S : IsNodeType(model[n]) /\ model[n][1] = model[r][1]
            ELSE tus = {} /\ reps = {} /\ labels = {}
TUPresenceWitness ==
    /\ wpc = "idle" /\ calls >= 1 /\ node_counter = 3
    /\ \E p, q, r \in DOMAIN trees :
         /\ ~ trees[p].name.some
         /\ trees[q].name = Some("")
         /\ trees[r].name.some /\ trees[r].name.v # ""

\* C8: a node that is no key of the adjacency table becomes a clade
\* without children and raises nothing; a root node without a Node Info
\* Record ends the generator with a KeyError and no tree is yielded for
\* it.
RECURSIVE CladeSize(_)
CladeSize(c) ==
    LET RECURSIVE Sum(_)
        Sum(i) == IF i = 0 THEN 0 ELSE CladeSize(c.clades[i]) + Sum(i - 1)
    IN  1 + Sum(Len(c.clades))
RECURSIVE NodeCount(_)
NodeCount(node) ==
    LET RECURSIVE Sum(_)
        Sum(i) == IF i = 0 THEN 0 ELSE NodeCount(parents[node][i]) + Sum(i - 1)
    IN  IF node \in DOMAIN parents THEN 1 + Sum(Len(parents[node])) ELSE 1
MissingRecordPolicy ==
    /\ \A j \in 1..Len(yielded) :
         /\ yielded[j].root_node \notin DOMAIN parents => yielded[j].clade.clades = << >>
         /\ CladeSize(yielded[j].clade) = NodeCount(yielded[j].root_node)
         /\ yielded[j].root_node \in DOMAIN node_info
    /\ ppc = "error" => perror \in {"KeyError", "ValueError"}
    /\ perror = "KeyError" =>
         /\ ppc = "error" /\ roots # << >>
         /\ Head(roots).root_node \notin DOMAIN node_info
    /\ ppc = "done" => \A r \in RootRows(pmodel) : r.root_node \in DOMAIN node_info
MissingRecordPolicyWitness ==
    /\ perror = "KeyError"
    /\ Len(yielded) = 1
    /\ yielded[1].root_node \notin DOMAIN parents
    /\ yielded[1].clade.clades = << >>

\* C9: the handle is loaded before any query; the node query runs once,
\* followed by the root query, before any tree is yielded; each next()
\* yields at most one tree; resuming the generator runs no query and
\* leaves the tables alone; an exhausted generator has yielded one tree
\* per root binding.
PhaseState ==
    /\ queries \in {<< >>, <<"node_info">>, <<"node_info", "has_root">>}
    /\ ppc \in {"new", "ready"} => queries = << >> /\ yielded = << >>
    /\ ppc = "new" => pmodel = {}
    /\ Len(yielded) > 0 => queries = <<"node_info", "has_root">>
    /\ ppc = "done" => Len(yielded) = Cardinality(RootRows(pmodel))
PhaseStep ==
    /\ Len(yielded') <= Len(yielded) + 1
    /\ ppc = "iterating" =>
         queries' = queries /\ node_info' = node_info /\ parents' = parents /\ pmodel' = pmodel
    /\ queries' # queries => ppc = "ready"
PhaseOrdering == [] PhaseState /\ [][PhaseStep]_vars
PhaseOrderingWitness ==
    ppc = "done" /\ Len(yielded) = 2 /\ queries = <<"node_info", "has_root">>

\* C10: the statements are appended in depth-first pre-order: the owners
\* of consecutive statements never go back in the order that puts a clade
\* before its descendants, and an elder child with its whole subtree
\* before the next sibling.
PreOrderLeq(a, b) ==
    \/ IsPrefix(a, b)
    \/ \E k \in 1..Len(a) :
         /\ k <= Len(b)
         /\ SubSeq(a, 1, k - 1) = SubSeq(b, 1, k - 1)
         /\ a[k] < b[k]
====
